---- MODULE Spec2Model ----
(***************************************************************************)
(* The social-graph service of src/think41/app.py: a users table, a        *)
(* connections table of mutual friendships, and the six request handlers   *)
(* (create_user, create_connection, get_friends, remove_connection,        *)
(* get_friends_of_friends, get_degree_of_separation).                      *)
(*                                                                         *)
(* A table is the collection of its rows, projected on the columns the     *)
(* handlers read.  users is a set of rows (its PRIMARY KEY makes it one);  *)
(* connections is a bag of rows: the table's only guard against a repeated *)
(* row is its UNIQUE constraint, which create_connection's INSERT checks.  *)
(* A SELECT without ORDER BY returns its rows in an order SQL leaves open: *)
(* a handler scans connections in index order, forward or reversed         *)
(* (SQLite's reverse_unordered_selects), chosen per request.               *)
(***************************************************************************)
EXTENDS Integers, Sequences, FiniteSets, Bags, TLC

VARIABLES
    users,          \* rows of table users
    connections,    \* rows of table connections (a bag)
    request,        \* the request the last handler served
    response,       \* what that handler returned: [status, body]
    calls           \* the handler calls in progress, one per worker, each
                    \* with its place in the handler and its local variables

vars == <<users, connections, request, response, calls>>

(***************************************************************************)
(* Bounds and input domains.                                               *)
(***************************************************************************)
\* The workers that serve requests side by side.
Workers == {"w1", "w2"}

\* The rows table connections may hold: an INSERT beyond it is not taken.
MaxConnections == 5

\* External ids that create_user is given, in the order new users appear:
\* non-empty strings.  External ids are opaque to the handlers (they are
\* only compared for equality), so the order of first appearance is fixed.
UserNames == <<"a", "b", "c", "d">>

\* An external id no user ever gets: lookups of it find nothing.
UnknownIds == {"x"}

\* The external ids requests are made with.
StrIds == {UserNames[i] : i \in 1..Len(UserNames)} \cup UnknownIds

DisplayNames == {"Ann"}

(***************************************************************************)
(* Python and SQL helpers.                                                 *)
(***************************************************************************)
\* A JSON object: a function from the keys it holds.
Dict(keys, values) == [keys -> values]

EmptyDict == [k \in {} |-> ""]

Range(s) == {s[i] : i \in DOMAIN s}

Reverse(s) == [i \in 1..Len(s) |-> s[Len(s) + 1 - i]]

\* list(a_set): every order of iteration over a Python set.
list(S) == {s \in [1..Cardinality(S) -> S] : Range(s) = S}

\* jsonify(body), status
jsonify(body, status) == [status |-> status, body |-> body]

\* A row of table connections.
ConnectionRow(id1, id2) == [user1_internal_id |-> id1, user2_internal_id |-> id2]

\* The order of the UNIQUE(user1_internal_id, user2_internal_id) index.
RowBefore(r1, r2) ==
    \/ r1.user1_internal_id < r2.user1_internal_id
    \/ /\ r1.user1_internal_id = r2.user1_internal_id
       /\ r1.user2_internal_id < r2.user2_internal_id

RECURSIVE IndexScan(_)
IndexScan(rows) ==
    IF rows = EmptyBag THEN <<>>
    ELSE LET first == CHOOSE r \in BagToSet(rows) :
                          \A r2 \in BagToSet(rows) : r2 = r \/ RowBefore(r, r2)
         IN  <<first>> \o IndexScan(rows (-) SetToBag({first}))

\* cursor.fetchall() of a scan of table connections.
ScanConnections(reverse) ==
    IF reverse THEN Reverse(IndexScan(connections)) ELSE IndexScan(connections)

\* INSERT INTO users: the rowid AUTOINCREMENT gives the new row.
lastrowid ==
    IF users = {} THEN 1
    ELSE 1 + (CHOOSE m \in {u.internal_db_id : u \in users} :
                  \A u \in users : u.internal_db_id <= m)

(***************************************************************************)
(* Helpers of app.py.                                                      *)
(***************************************************************************)
\* fetchone() of SELECT * FROM users WHERE user_str_id = ?: <<>> is None.
get_user_by_str_id(user_str_id) ==
    LET rows == {u \in users : u.user_str_id = user_str_id}
    IN  IF rows = {} THEN <<>> ELSE <<CHOOSE u \in rows : TRUE>>

\* Mutant: the pair is stored as given.
order_connection_as_given(id1, id2) == <<id1, id2>>

order_connection(id1, id2) == IF id1 < id2 THEN <<id1, id2>> ELSE <<id2, id1>>

(***************************************************************************)
(* The SQL statements of the handlers.                                     *)
(***************************************************************************)
\* Mutant: the row is written before the constraint is checked.
InsertConnectionUnchecked(row) == connections (+) SetToBag({row})

\* Mutant: the DELETE matches on user1_internal_id alone.
DeleteConnectionByUser1(row) ==
    [r \in {r2 \in BagToSet(connections) :
                r2.user1_internal_id # row.user1_internal_id} |-> connections[r]]

\* Mutant: the join looks for the user in the first slot only.
JoinOnUser1(c, u, id) ==
    c.user1_internal_id = id /\ u.internal_db_id = c.user2_internal_id

\* Mutant: table connections without its UNIQUE constraint.
NoIntegrityError(row) == FALSE

\* INSERT INTO connections raises sqlite3.IntegrityError:
\* UNIQUE(user1_internal_id, user2_internal_id) already holds the pair.
IntegrityError(row) == BagIn(row, connections)

\* Table connections after INSERT INTO connections ... VALUES (row) and
\* commit: a statement that raises writes nothing.
InsertConnection(row) ==
    IF IntegrityError(row) THEN connections ELSE connections (+) SetToBag({row})

\* cursor.rowcount of DELETE FROM connections WHERE user1_internal_id = ?
\* AND user2_internal_id = ?
rowcount(row) == CopiesIn(row, connections)

\* Table connections after that DELETE and commit.
DeleteConnection(row) ==
    [r \in BagToSet(connections) \ {row} |-> connections[r]]

\* The ON clause of the friends join, for the user with internal id `id`.
JoinOn(c, u, id) ==
    \/ c.user1_internal_id = id /\ u.internal_db_id = c.user2_internal_id
    \/ c.user2_internal_id = id /\ u.internal_db_id = c.user1_internal_id

\* Rows of table users in rowid order.
RECURSIVE UsersScan(_)
UsersScan(rows) ==
    IF rows = {} THEN <<>>
    ELSE LET first == CHOOSE u \in rows :
                          \A u2 \in rows : u.internal_db_id <= u2.internal_db_id
         IN  <<first>> \o UsersScan(rows \ {first})

\* fetchall() of SELECT u.* FROM connections c JOIN users u ON (...):
\* for each row c of the scan, the users the ON clause joins to it.
RECURSIVE JoinUsers(_, _, _)
JoinUsers(scan, id, reverse) ==
    IF scan = <<>> THEN <<>>
    ELSE LET joined == UsersScan({u \in users : JoinOn(Head(scan), u, id)})
         IN  (IF reverse THEN Reverse(joined) ELSE joined)
             \o JoinUsers(Tail(scan), id, reverse)

SelectFriends(id, reverse) == JoinUsers(ScanConnections(reverse), id, reverse)

\* Mutant: self-connections are not turned away.
self_connection_allowed(user1_str_id, user2_str_id) == FALSE

\* "Don't allow self-connections": user1_str_id == user2_str_id
self_connection(user1_str_id, user2_str_id) == user1_str_id = user2_str_id

\* A worker between two requests.
idle == [pc |-> "idle"]

Init ==
    /\ users = {}
    /\ connections = EmptyBag
    /\ request = [op |-> "init_db"]
    /\ response = jsonify(EmptyDict, 0)
    /\ calls = [w \in Workers |-> idle]

\* Mutant: INSERT OR REPLACE, an existing external id is given a new row.
create_user_or_replace(data) ==
    /\ request' = [op |-> "create_user", data |-> data]
    /\ IF data = EmptyDict \/ "user_str_id" \notin DOMAIN data
                           \/ "display_name" \notin DOMAIN data
       THEN /\ response' = jsonify([error |-> "user_str_id and display_name are required"], 400)
            /\ UNCHANGED <<users, connections>>
       ELSE /\ users' = {u \in users : u.user_str_id # data["user_str_id"]}
                           \cup {[internal_db_id |-> lastrowid,
                                  user_str_id |-> data["user_str_id"],
                                  display_name |-> data["display_name"]]}
            /\ response' = jsonify([internal_db_id |-> lastrowid,
                                    user_str_id |-> data["user_str_id"],
                                    status |-> "created"], 201)
            /\ UNCHANGED connections

\* POST /users
create_user(data) ==
    /\ request' = [op |-> "create_user", data |-> data]
    /\ IF data = EmptyDict \/ "user_str_id" \notin DOMAIN data
                           \/ "display_name" \notin DOMAIN data
       THEN /\ response' = jsonify([error |-> "user_str_id and display_name are required"], 400)
            /\ UNCHANGED <<users, connections>>
       ELSE IF \E u \in users : u.user_str_id = data["user_str_id"]
       THEN \* UNIQUE(user_str_id): sqlite3.IntegrityError
            /\ response' = jsonify([error |-> "User already exists"], 409)
            /\ UNCHANGED <<users, connections>>
       ELSE /\ users' = users \cup {[internal_db_id |-> lastrowid,
                                     user_str_id |-> data["user_str_id"],
                                     display_name |-> data["display_name"]]}
            /\ response' = jsonify([internal_db_id |-> lastrowid,
                                    user_str_id |-> data["user_str_id"],
                                    status |-> "created"], 201)
            /\ UNCHANGED connections

\* POST /connections
create_connection(data) ==
    /\ request' = [op |-> "create_connection", data |-> data]
    /\ IF data = EmptyDict \/ "user1_str_id" \notin DOMAIN data
                           \/ "user2_str_id" \notin DOMAIN data
       THEN /\ response' = jsonify([error |-> "user1_str_id and user2_str_id are required"], 400)
            /\ UNCHANGED <<users, connections>>
       ELSE IF self_connection(data["user1_str_id"], data["user2_str_id"])
       THEN /\ response' = jsonify([error |-> "Cannot connect user to themselves"], 400)
            /\ UNCHANGED <<users, connections>>
       ELSE LET user1 == get_user_by_str_id(data["user1_str_id"])
                user2 == get_user_by_str_id(data["user2_str_id"])
            IN  IF user1 = <<>>
                THEN /\ response' = jsonify([error |-> "User1 not found"], 404)
                     /\ UNCHANGED <<users, connections>>
                ELSE IF user2 = <<>>
                THEN /\ response' = jsonify([error |-> "User2 not found"], 404)
                     /\ UNCHANGED <<users, connections>>
                ELSE LET ids == order_connection(user1[1].internal_db_id,
                                                 user2[1].internal_db_id)
                         row == ConnectionRow(ids[1], ids[2])
                     IN  /\ connections' = InsertConnection(row)
                         /\ BagCardinality(connections') <= MaxConnections
                         /\ response' = IF IntegrityError(row)
                                        THEN jsonify([error |-> "Connection already exists"], 409)
                                        ELSE jsonify([status |-> "connection_added"], 201)
                         /\ UNCHANGED users

\* DELETE /connections
remove_connection(data) ==
    /\ request' = [op |-> "remove_connection", data |-> data]
    /\ IF data = EmptyDict \/ "user1_str_id" \notin DOMAIN data
                           \/ "user2_str_id" \notin DOMAIN data
       THEN /\ response' = jsonify([error |-> "user1_str_id and user2_str_id are required"], 400)
            /\ UNCHANGED <<users, connections>>
       ELSE LET user1 == get_user_by_str_id(data["user1_str_id"])
                user2 == get_user_by_str_id(data["user2_str_id"])
            IN  IF user1 = <<>>
                THEN /\ response' = jsonify([error |-> "User1 not found"], 404)
                     /\ UNCHANGED <<users, connections>>
                ELSE IF user2 = <<>>
                THEN /\ response' = jsonify([error |-> "User2 not found"], 404)
                     /\ UNCHANGED <<users, connections>>
                ELSE LET ids == order_connection(user1[1].internal_db_id,
                                                 user2[1].internal_db_id)
                         row == ConnectionRow(ids[1], ids[2])
                     IN  IF rowcount(row) = 0
                         THEN \* closed without commit
                              /\ response' = jsonify([error |-> "Connection not found"], 404)
                              /\ UNCHANGED <<users, connections>>
                         ELSE /\ connections' = DeleteConnection(row)
                              /\ response' = jsonify([status |-> "connection_removed"], 200)
                              /\ UNCHANGED users

\* The body get_friends returns for a user found.
friends_list(user, reverse) ==
    LET friends == SelectFriends(user.internal_db_id, reverse)
    IN  [i \in DOMAIN friends |-> [user_str_id |-> friends[i].user_str_id,
                                   display_name |-> friends[i].display_name]]

get_friends_response(user_str_id, reverse) ==
    LET user == get_user_by_str_id(user_str_id)
    IN  IF user = <<>>
        THEN jsonify([error |-> "User not found"], 404)
        ELSE jsonify(friends_list(user[1], reverse), 200)

\* Mutant: a user asked about and not found is created ("get or create").
get_friends_or_create(user_str_id, reverse) ==
    /\ request' = [op |-> "get_friends", user_str_id |-> user_str_id]
    /\ response' = get_friends_response(user_str_id, reverse)
    /\ users' = IF get_user_by_str_id(user_str_id) = <<>>
                THEN users \cup {[internal_db_id |-> lastrowid,
                                  user_str_id |-> user_str_id,
                                  display_name |-> user_str_id]}
                ELSE users
    /\ UNCHANGED connections

\* GET /users/<user_str_id>/friends
get_friends(user_str_id, reverse) ==
    /\ request' = [op |-> "get_friends", user_str_id |-> user_str_id]
    /\ response' = get_friends_response(user_str_id, reverse)
    /\ UNCHANGED <<users, connections>>

\* Mutant: only the user itself is excluded.
NotSelf(connection, user, direct_friend_ids) ==
    connection.internal_db_id # user.internal_db_id

\* Mutant: only the direct friends are excluded.
NotFriend(connection, user, direct_friend_ids) ==
    connection.internal_db_id \notin direct_friend_ids

\* "Exclude self and direct friends"
NotSelfNorFriend(connection, user, direct_friend_ids) ==
    /\ connection.internal_db_id # user.internal_db_id
    /\ connection.internal_db_id \notin direct_friend_ids

\* for connection in friend_connections: ... friends_of_friends.add(...)
RECURSIVE AddConnections(_, _, _, _)
AddConnections(friend_connections, user, direct_friend_ids, friends_of_friends) ==
    IF friend_connections = <<>> THEN friends_of_friends
    ELSE LET connection == Head(friend_connections)
         IN  AddConnections(Tail(friend_connections), user, direct_friend_ids,
                 IF NotSelfNorFriend(connection, user, direct_friend_ids)
                 THEN friends_of_friends
                      \cup {<<connection.user_str_id, connection.display_name>>}
                 ELSE friends_of_friends)

\* for friend in direct_friends: ...
RECURSIVE AddFriends(_, _, _, _, _)
AddFriends(direct_friends, user, direct_friend_ids, reverse, friends_of_friends) ==
    IF direct_friends = <<>> THEN friends_of_friends
    ELSE LET friend == Head(direct_friends)
             friend_connections == SelectFriends(friend.internal_db_id, reverse)
         IN  AddFriends(Tail(direct_friends), user, direct_friend_ids, reverse,
                 AddConnections(friend_connections, user, direct_friend_ids,
                                friends_of_friends))

\* The set friends_of_friends that get_friends_of_friends builds.
friends_of_friends_set(user, reverse) ==
    LET direct_friends == SelectFriends(user.internal_db_id, reverse)
        direct_friend_ids == {direct_friends[i].internal_db_id : i \in DOMAIN direct_friends}
    IN  AddFriends(direct_friends, user, direct_friend_ids, reverse, {})

\* The bodies get_friends_of_friends may return: the set, listed in any order.
fof_lists(user, reverse) ==
    {[i \in DOMAIN l |-> [user_str_id |-> l[i][1], display_name |-> l[i][2]]] :
        l \in list(friends_of_friends_set(user, reverse))}

\* GET /users/<user_str_id>/friends-of-friends
get_friends_of_friends(user_str_id, reverse) ==
    /\ request' = [op |-> "get_friends_of_friends", user_str_id |-> user_str_id]
    /\ LET user == get_user_by_str_id(user_str_id)
       IN  IF user = <<>>
           THEN response' = jsonify([error |-> "User not found"], 404)
           ELSE \E fof_list \in fof_lists(user[1], reverse) :
                    response' = jsonify(fof_list, 200)
    /\ UNCHANGED <<users, connections>>

\* Mutant: the edge is entered in one direction only.
add_edge_one_way(graph, id1, id2) ==
    LET g1 == IF id1 \notin DOMAIN graph THEN graph @@ (id1 :> <<>>) ELSE graph
        g2 == IF id2 \notin DOMAIN g1 THEN g1 @@ (id2 :> <<>>) ELSE g1
    IN  [g2 EXCEPT ![id1] = Append(@, id2)]

\* graph[id1].append(id2); graph[id2].append(id1), the keys made on demand.
add_edge(graph, id1, id2) ==
    LET g1 == IF id1 \notin DOMAIN graph THEN graph @@ (id1 :> <<>>) ELSE graph
        g2 == IF id2 \notin DOMAIN g1 THEN g1 @@ (id2 :> <<>>) ELSE g1
        g3 == [g2 EXCEPT ![id1] = Append(@, id2)]
    IN  [g3 EXCEPT ![id2] = Append(@, id1)]

\* "Create adjacency list": for conn in connections: ...
RECURSIVE adjacency_list(_, _)
adjacency_list(rows, graph) ==
    IF rows = <<>> THEN graph
    ELSE adjacency_list(Tail(rows),
             add_edge(graph, Head(rows).user1_internal_id, Head(rows).user2_internal_id))

\* Mutant: the hop is not counted.
enqueue_same_degree(queue, neighbor, degree) == Append(queue, <<neighbor, degree>>)

\* queue.append((neighbor, degree + 1))
enqueue(queue, neighbor, degree) == Append(queue, <<neighbor, degree + 1>>)

\* Mutant: no neighbor is taken as visited.
RECURSIVE visit_neighbors_again(_, _, _, _)
visit_neighbors_again(neighbors, degree, queue, visited) ==
    IF neighbors = <<>> THEN [queue |-> queue, visited |-> visited]
    ELSE visit_neighbors_again(Tail(neighbors), degree,
                               enqueue(queue, Head(neighbors), degree),
                               visited \cup {Head(neighbors)})

\* for neighbor in graph[current_user]: if neighbor not in visited: ...
RECURSIVE visit_neighbors(_, _, _, _)
visit_neighbors(neighbors, degree, queue, visited) ==
    IF neighbors = <<>> THEN [queue |-> queue, visited |-> visited]
    ELSE LET neighbor == Head(neighbors)
         IN  IF neighbor \notin visited
             THEN visit_neighbors(Tail(neighbors), degree,
                                  enqueue(queue, neighbor, degree),
                                  visited \cup {neighbor})
             ELSE visit_neighbors(Tail(neighbors), degree, queue, visited)

not_connected == [degree |-> -1, message |-> "not_connected"]

\* while queue: ...; the body returned.
RECURSIVE bfs(_, _, _, _)
bfs(graph, queue, visited, target) ==
    IF queue = <<>> THEN not_connected
    ELSE LET current_user == Head(queue)[1]
             degree == Head(queue)[2]
         IN  IF current_user = target THEN [degree |-> degree]
             ELSE IF current_user \in DOMAIN graph
             THEN LET next == visit_neighbors(graph[current_user], degree,
                                              Tail(queue), visited)
                  IN  bfs(graph, next.queue, next.visited, target)
             ELSE bfs(graph, Tail(queue), visited, target)

\* Mutant: the zero-hop case is left to the search.
same_user_unchecked(user1, user2) == FALSE

\* user1['internal_db_id'] == user2['internal_db_id']
same_user(user1, user2) == user1.internal_db_id = user2.internal_db_id

\* request.args.get(key) is None or empty
Falsy(args, key) == key \notin DOMAIN args \/ args[key] = ""

get_degree_of_separation_response(args, reverse) ==
    IF Falsy(args, "from_user_str_id") \/ Falsy(args, "to_user_str_id")
    THEN jsonify([error |-> "from_user_str_id and to_user_str_id are required"], 400)
    ELSE LET user1 == get_user_by_str_id(args["from_user_str_id"])
             user2 == get_user_by_str_id(args["to_user_str_id"])
         IN  IF user1 = <<>> THEN jsonify([error |-> "From user not found"], 404)
             ELSE IF user2 = <<>> THEN jsonify([error |-> "To user not found"], 404)
             ELSE IF same_user(user1[1], user2[1]) THEN jsonify([degree |-> 0], 200)
             ELSE LET graph == adjacency_list(ScanConnections(reverse), EmptyDict)
                      start == user1[1].internal_db_id
                  IN  IF start \notin DOMAIN graph
                      THEN jsonify(not_connected, 200)
                      ELSE jsonify(bfs(graph, <<<<start, 0>>>>, {start},
                                       user2[1].internal_db_id), 200)

\* GET /connections/degree
get_degree_of_separation(args, reverse) ==
    /\ request' = [op |-> "get_degree_of_separation", args |-> args]
    /\ response' = get_degree_of_separation_response(args, reverse)
    /\ UNCHANGED <<users, connections>>

(***************************************************************************)
(* The requests the handlers are given.                                    *)
(***************************************************************************)
\* New users take the external ids of UserNames in order; an id in use may
\* be given again.
CreateUserIds == {UserNames[i] : i \in 1..Len(UserNames)} \cap
                 ({u.user_str_id : u \in users} \cup
                  {UserNames[i] : i \in {Cardinality(users) + 1} \cap DOMAIN UserNames})

CreateUserData ==
    [user_str_id : CreateUserIds, display_name : DisplayNames]
    \cup Dict({"user_str_id"}, CreateUserIds)
    \cup Dict({"display_name"}, DisplayNames)
    \cup {EmptyDict}

ConnectionData ==
    Dict({"user1_str_id", "user2_str_id"}, StrIds)
    \cup Dict({"user1_str_id"}, UnknownIds)
    \cup Dict({"user2_str_id"}, UnknownIds)
    \cup {EmptyDict}

DegreeArgs ==
    Dict({"from_user_str_id", "to_user_str_id"}, StrIds)
    \cup Dict({"from_user_str_id"}, UnknownIds)
    \cup Dict({"to_user_str_id"}, UnknownIds)
    \cup [from_user_str_id : {""}, to_user_str_id : UnknownIds]
    \cup {EmptyDict}

\* One request at a time, each served from its first line to its last: no
\* call is ever found in progress.
Next ==
    \/ \E data \in CreateUserData : create_user(data) /\ UNCHANGED calls
    \/ \E data \in ConnectionData : create_connection(data) /\ UNCHANGED calls
    \/ \E data \in ConnectionData : remove_connection(data) /\ UNCHANGED calls
    \/ \E user_str_id \in StrIds, reverse \in BOOLEAN :
           get_friends(user_str_id, reverse) /\ UNCHANGED calls
    \/ \E user_str_id \in StrIds, reverse \in BOOLEAN :
           get_friends_of_friends(user_str_id, reverse) /\ UNCHANGED calls
    \/ \E args \in DegreeArgs, reverse \in BOOLEAN :
           get_degree_of_separation(args, reverse) /\ UNCHANGED calls

Spec == Init /\ [][Next]_vars

(***************************************************************************)
(* The user directory alone: users created with any external id, in any    *)
(* order, under either of two display names.                               *)
(***************************************************************************)
AnyDisplayNames == {"Ann", "Bob"}

AnyUserData ==
    [user_str_id : StrIds, display_name : AnyDisplayNames]
    \cup Dict({"user_str_id"}, UnknownIds)
    \cup {EmptyDict}

NextUsers == \E data \in AnyUserData : create_user(data) /\ UNCHANGED calls

SpecUsers == Init /\ [][NextUsers]_vars

(***************************************************************************)
(* The handlers statement by statement: a worker's call advances from one  *)
(* access to the database to the next, and the calls of other workers run  *)
(* in between.  A call keeps its place (pc), the request it serves, the    *)
(* response it is about to return and its local variables.                 *)
(***************************************************************************)
\* calls, with worker w's call replaced.
Call(w, call) == [calls EXCEPT ![w] = call]

\* return jsonify(...), status: the response is ready to be sent.
Return(w, req, resp, locals) ==
    calls' = Call(w, [pc |-> "return", request |-> req, response |-> resp,
                      locals |-> locals])

\* A database that earlier runs have filled (DATABASE is a file, and init_db
\* keeps the tables it finds): n users and any connections among them that
\* create_connection stores.
StoredUsers(n) ==
    {[internal_db_id |-> i, user_str_id |-> UserNames[i], display_name |-> "Ann"] :
        i \in 1..n}

StoredConnections(n) ==
    {SetToBag(rows) :
        rows \in SUBSET {ConnectionRow(pair[1], pair[2]) :
                            pair \in {p \in (1..n) \X (1..n) : p[1] < p[2]}}}

InitStored(n) ==
    /\ users = StoredUsers(n)
    /\ connections \in StoredConnections(n)
    /\ request = [op |-> "init_db"]
    /\ response = jsonify(EmptyDict, 0)
    /\ calls = [w \in Workers |-> idle]

\* The response is sent and the worker is free again.
respond(w) ==
    /\ calls[w].pc = "return"
    /\ request' = calls[w].request
    /\ response' = calls[w].response
    /\ calls' = Call(w, idle)
    /\ UNCHANGED <<users, connections>>

\* get_degree_of_separation up to its SELECT: the arguments and the users.
degree_begin(w, args) ==
    /\ calls[w].pc = "idle"
    /\ LET req == [op |-> "get_degree_of_separation", args |-> args]
       IN  IF Falsy(args, "from_user_str_id") \/ Falsy(args, "to_user_str_id")
           THEN Return(w, req, jsonify([error |->
                    "from_user_str_id and to_user_str_id are required"], 400), EmptyDict)
           ELSE LET user1 == get_user_by_str_id(args["from_user_str_id"])
                    user2 == get_user_by_str_id(args["to_user_str_id"])
                IN  IF user1 = <<>>
                    THEN Return(w, req, jsonify([error |-> "From user not found"], 404), EmptyDict)
                    ELSE IF user2 = <<>>
                    THEN Return(w, req, jsonify([error |-> "To user not found"], 404), EmptyDict)
                    ELSE IF same_user(user1[1], user2[1])
                    THEN Return(w, req, jsonify([degree |-> 0], 200), EmptyDict)
                    ELSE calls' = Call(w, [pc |-> "select", request |-> req,
                                           locals |-> [user1 |-> user1[1],
                                                       user2 |-> user2[1]]])
    /\ UNCHANGED <<users, connections, request, response>>

\* The SELECT of all connections, the adjacency list built from its rows,
\* and the queue and the visited set the search starts with.  read is the
\* table as the SELECT found it; enqueued and dequeued record what enters
\* and leaves the queue.
degree_select(w, reverse) ==
    /\ calls[w].pc = "select"
    /\ LET call == calls[w]
           graph == adjacency_list(ScanConnections(reverse), EmptyDict)
           start == call.locals.user1.internal_db_id
           search == [user1 |-> call.locals.user1,
                      user2 |-> call.locals.user2,
                      graph |-> graph,
                      queue |-> <<<<start, 0>>>>,
                      visited |-> {start},
                      read |-> connections,
                      enqueued |-> <<<<start, 0>>>>,
                      dequeued |-> <<>>]
       IN  IF start \notin DOMAIN graph
           THEN Return(w, call.request, jsonify(not_connected, 200),
                       [search EXCEPT !.queue = <<>>, !.visited = {}, !.enqueued = <<>>])
           ELSE calls' = Call(w, [pc |-> "while", request |-> call.request,
                                  locals |-> search])
    /\ UNCHANGED <<users, connections, request, response>>

\* Mutant: the adjacency list is built anew from the table at each use.
graph_now(l) == adjacency_list(ScanConnections(FALSE), EmptyDict)

\* graph, the local variable of the call.
graph_of(l) == l.graph

\* One test of "while queue" and, the queue holding something, one pass
\* through the loop's body.
degree_while(w) ==
    /\ calls[w].pc = "while"
    /\ LET call == calls[w]
           l == call.locals
       IN  IF l.queue = <<>>
           THEN Return(w, call.request, jsonify(not_connected, 200), l)
           ELSE LET current_user == Head(l.queue)[1]
                    degree == Head(l.queue)[2]
                    dequeued == Append(l.dequeued, Head(l.queue))
                IN  IF current_user = l.user2.internal_db_id
                    THEN Return(w, call.request, jsonify([degree |-> degree], 200),
                                [l EXCEPT !.queue = Tail(l.queue),
                                          !.dequeued = dequeued])
                    ELSE LET graph == graph_of(l)
                             next == IF current_user \in DOMAIN graph
                                     THEN visit_neighbors(graph[current_user], degree,
                                                          Tail(l.queue), l.visited)
                                     ELSE [queue |-> Tail(l.queue), visited |-> l.visited]
                         IN  calls' = Call(w, [call EXCEPT !.locals =
                                 [l EXCEPT !.queue = next.queue,
                                           !.visited = next.visited,
                                           !.dequeued = dequeued,
                                           !.enqueued = @ \o SubSeq(next.queue, Len(l.queue),
                                                                    Len(next.queue))]])
    /\ UNCHANGED <<users, connections, request, response>>

\* Another worker's connection holds the database's write lock: its INSERT
\* or DELETE has run and its commit has not.  SQLite lets one connection
\* write at a time; the others' writes wait for it (the busy timeout).
locked(w) == \E v \in Workers \ {w} : calls[v].pc = "commit"

\* create_connection up to its INSERT: the fields, the users, the order.
\* held records whether the pair was stored when the call began.
connect_begin(w, data) ==
    /\ calls[w].pc = "idle"
    /\ LET req == [op |-> "create_connection", data |-> data]
       IN  IF data = EmptyDict \/ "user1_str_id" \notin DOMAIN data
                               \/ "user2_str_id" \notin DOMAIN data
           THEN Return(w, req, jsonify([error |->
                    "user1_str_id and user2_str_id are required"], 400), EmptyDict)
           ELSE IF self_connection(data["user1_str_id"], data["user2_str_id"])
           THEN Return(w, req, jsonify([error |->
                    "Cannot connect user to themselves"], 400), EmptyDict)
           ELSE LET user1 == get_user_by_str_id(data["user1_str_id"])
                    user2 == get_user_by_str_id(data["user2_str_id"])
                IN  IF user1 = <<>>
                    THEN Return(w, req, jsonify([error |-> "User1 not found"], 404),
                                EmptyDict)
                    ELSE IF user2 = <<>>
                    THEN Return(w, req, jsonify([error |-> "User2 not found"], 404),
                                EmptyDict)
                    ELSE LET ids == order_connection(user1[1].internal_db_id,
                                                     user2[1].internal_db_id)
                             row == ConnectionRow(ids[1], ids[2])
                         IN  calls' = Call(w, [pc |-> "insert", request |-> req,
                                               locals |-> [row |-> row,
                                                           held |-> BagIn(row, connections)]])
    /\ UNCHANGED <<users, connections, request, response>>

\* cursor.execute('INSERT ...'): the statement takes the write lock and
\* checks the UNIQUE constraint against the table as committed.
connect_insert(w) ==
    /\ calls[w].pc = "insert"
    /\ ~locked(w)
    /\ LET call == calls[w]
       IN  IF IntegrityError(call.locals.row)
           THEN Return(w, call.request,
                       jsonify([error |-> "Connection already exists"], 409), call.locals)
           ELSE calls' = Call(w, [call EXCEPT !.pc = "commit"])
    /\ UNCHANGED <<users, connections, request, response>>

\* conn.commit(): the row is in the table and the lock is free.
connect_commit(w) ==
    /\ calls[w].pc = "commit"
    /\ connections' = connections (+) SetToBag({calls[w].locals.row})
    /\ Return(w, calls[w].request, jsonify([status |-> "connection_added"], 201),
              calls[w].locals)
    /\ UNCHANGED <<users, request, response>>

(***************************************************************************)
(* Two workers serving connect requests side by side, over a stored graph. *)
(***************************************************************************)
\* The users stored when workers run side by side.
RaceUsers == 3

InitRace == InitStored(RaceUsers)

\* Connect and disconnect requests about two stored users.
RaceData ==
    Dict({"user1_str_id", "user2_str_id"}, {u.user_str_id : u \in users})

NextConnect ==
    \/ \E w \in Workers, data \in RaceData : connect_begin(w, data)
    \/ \E w \in Workers : connect_insert(w)
    \/ \E w \in Workers : connect_commit(w)
    \/ \E w \in Workers : respond(w)

SpecConnect == InitRace /\ [][NextConnect]_vars

(***************************************************************************)
(* One worker answering degree queries statement by statement while        *)
(* connect and disconnect requests are served in between.  A write is one  *)
(* step for the query: the table changes at the write's commit.            *)
(***************************************************************************)
\* Queries about two stored users.
RaceArgs ==
    Dict({"from_user_str_id", "to_user_str_id"}, {u.user_str_id : u \in users})

NextDegree ==
    \/ \E args \in RaceArgs : degree_begin("w1", args)
    \/ \E reverse \in BOOLEAN : degree_select("w1", reverse)
    \/ degree_while("w1")
    \/ respond("w1")
    \/ \E data \in RaceData : create_connection(data) /\ UNCHANGED calls
    \/ \E data \in RaceData : remove_connection(data) /\ UNCHANGED calls

SpecDegree == InitRace /\ [][NextDegree]_vars

\* get_friends_of_friends up to its first SELECT: the user.  tables records
\* every content table connections has while the call is in progress.
fof_begin(w, user_str_id) ==
    /\ calls[w].pc = "idle"
    /\ LET req == [op |-> "get_friends_of_friends", user_str_id |-> user_str_id]
           user == get_user_by_str_id(user_str_id)
       IN  IF user = <<>>
           THEN Return(w, req, jsonify([error |-> "User not found"], 404), EmptyDict)
           ELSE calls' = Call(w, [pc |-> "direct", request |-> req,
                                  locals |-> [user |-> user[1],
                                              tables |-> {connections}]])
    /\ UNCHANGED <<users, connections, request, response>>

\* "First, get all direct friends": the SELECT and direct_friend_ids.
fof_direct(w, reverse) ==
    /\ calls[w].pc = "direct"
    /\ LET call == calls[w]
           direct_friends == SelectFriends(call.locals.user.internal_db_id, reverse)
       IN  calls' = Call(w, [pc |-> "for", request |-> call.request,
                   locals |-> [user |-> call.locals.user,
                               tables |-> call.locals.tables,
                               direct_friends |-> direct_friends,
                               direct_friend_ids |->
                                   {direct_friends[i].internal_db_id :
                                        i \in DOMAIN direct_friends},
                               friends_of_friends |-> {}]])
    /\ UNCHANGED <<users, connections, request, response>>

\* One pass of "for friend in direct_friends": the SELECT of the friend's
\* connections and the inner loop over its rows; after the last friend,
\* fof_list in the order the set is iterated in.
fof_for(w, reverse) ==
    /\ calls[w].pc = "for"
    /\ LET call == calls[w]
           l == call.locals
       IN  IF l.direct_friends = <<>>
           THEN \E order \in list(l.friends_of_friends) :
                    Return(w, call.request,
                           jsonify([i \in DOMAIN order |->
                                       [user_str_id |-> order[i][1],
                                        display_name |-> order[i][2]]], 200), l)
           ELSE LET friend == Head(l.direct_friends)
                    friend_connections == SelectFriends(friend.internal_db_id, reverse)
                IN  calls' = Call(w, [call EXCEPT !.locals =
                        [l EXCEPT !.direct_friends = Tail(l.direct_friends),
                                  !.friends_of_friends =
                                      AddConnections(friend_connections, l.user,
                                                     l.direct_friend_ids, @)]])
    /\ UNCHANGED <<users, connections, request, response>>

(***************************************************************************)
(* One worker answering friends-of-friends queries statement by statement  *)
(* while connect and disconnect requests are served in between.            *)
(***************************************************************************)
\* The tables one query is followed through: the one it begins on and those
\* of two writes.
MaxTables == 3

\* calls after a write: a query in progress has one more table in its
\* record.
Written ==
    [w \in Workers |->
        IF calls[w].pc # "idle" /\ "tables" \in DOMAIN calls[w].locals
        THEN [calls[w] EXCEPT !.locals.tables = @ \cup {connections'}]
        ELSE calls[w]]

\* No query in progress has been followed through more than MaxTables tables.
Followed(c) ==
    \A w \in Workers :
        (c[w].pc # "idle" /\ "tables" \in DOMAIN c[w].locals)
            => Cardinality(c[w].locals.tables) <= MaxTables

NextFof ==
    \/ \E user_str_id \in {u.user_str_id : u \in users} : fof_begin("w1", user_str_id)
    \/ \E reverse \in BOOLEAN : fof_direct("w1", reverse)
    \/ \E reverse \in BOOLEAN : fof_for("w1", reverse)
    \/ respond("w1")
    \/ \E data \in RaceData :
           create_connection(data) /\ calls' = Written /\ Followed(calls')
    \/ \E data \in RaceData :
           remove_connection(data) /\ calls' = Written /\ Followed(calls')

SpecFof == InitRace /\ [][NextFof]_vars

(***************************************************************************)
(* One worker answering degree queries over a stored graph.  A worker      *)
(* inside the loop goes on running.                                        *)
(***************************************************************************)
\* Every user UserNames names is stored: enough for a cycle with a tail, and
\* for two users three hops apart.
InitBfs == InitStored(Len(UserNames))

\* Queries about two stored users.
BfsArgs == Dict({"from_user_str_id", "to_user_str_id"}, StrIds \ UnknownIds)

NextBfs ==
    \/ \E args \in BfsArgs : degree_begin("w1", args)
    \/ \E reverse \in BOOLEAN : degree_select("w1", reverse)
    \/ degree_while("w1")
    \/ respond("w1")

SpecBfs == InitBfs /\ [][NextBfs]_vars /\ WF_vars(degree_while("w1"))

(***************************************************************************)
(* The friendship graph the stored connections form, and what the          *)
(* requests are about.                                                     *)
(***************************************************************************)
UserIds == {u.internal_db_id : u \in users}

\* Some stored connection joins x and y.
Edge(x, y) ==
    \E r \in BagToSet(connections) :
        \/ r.user1_internal_id = x /\ r.user2_internal_id = y
        \/ r.user1_internal_id = y /\ r.user2_internal_id = x

\* The paths from x to y, as the users on them.
Paths(x, y) ==
    {p \in UNION {[1..n -> UserIds] : n \in 1..Cardinality(UserIds)} :
        /\ p[1] = x
        /\ p[Len(p)] = y
        /\ \A i \in 1..(Len(p) - 1) : Edge(p[i], p[i + 1])}

Joined(x, y) == Paths(x, y) # {}

\* The number of edges of a shortest path from x to y, when one exists.
Distance(x, y) ==
    CHOOSE d \in 0..Cardinality(UserIds) :
        /\ \E p \in Paths(x, y) : Len(p) - 1 = d
        /\ \A p \in Paths(x, y) : Len(p) - 1 >= d

Exists(user_str_id) == \E u \in users : u.user_str_id = user_str_id

IdOf(user_str_id) == (CHOOSE u \in users : u.user_str_id = user_str_id).internal_db_id

\* The external ids in the body of a friends or friends-of-friends response.
IdsIn(body) == {body[i].user_str_id : i \in DOMAIN body}

\* direct_friends(a), as get_friends answers it.
direct_friends(user_str_id, reverse) ==
    IdsIn(get_friends_response(user_str_id, reverse).body)

\* A degree request for two existing users.
DegreeRequest ==
    /\ request.op = "get_degree_of_separation"
    /\ DOMAIN request.args = {"from_user_str_id", "to_user_str_id"}
    /\ Exists(request.args["from_user_str_id"])
    /\ Exists(request.args["to_user_str_id"])

FromId == IdOf(request.args["from_user_str_id"])

ToId == IdOf(request.args["to_user_str_id"])

FofRequest ==
    /\ request.op = "get_friends_of_friends"
    /\ Exists(request.user_str_id)

\* What friends_of_friends(a) is to be: the friends of a's friends, less a
\* and a's friends.
TwoHops(a) ==
    (UNION {direct_friends(f, FALSE) : f \in direct_friends(a, FALSE)})
        \ ({a} \cup direct_friends(a, FALSE))

\* C4: friends_of_friends(a) returns exactly the union of direct_friends(f)
\* over the direct friends f of a, less a and less direct_friends(a), each
\* user once.
C4_FofIsTwoHops ==
    FofRequest
        => /\ response.status = 200
           /\ IdsIn(response.body) = TwoHops(request.user_str_id)
           /\ \A i, j \in DOMAIN response.body :
                  response.body[i].user_str_id = response.body[j].user_str_id => i = j
           /\ \A i \in DOMAIN response.body :
                  \E u \in users :
                      /\ u.user_str_id = response.body[i].user_str_id
                      /\ u.display_name = response.body[i].display_name

\* A star: the asking leaf's only friend is the centre, whose other two
\* friends are the answer.
C4_Witness ==
    /\ FofRequest
    /\ \E x \in StrIds :
           /\ direct_friends(request.user_str_id, FALSE) = {x}
           /\ Cardinality(direct_friends(x, FALSE)) = 3
    /\ Cardinality(IdsIn(response.body)) = 2
    /\ Len(response.body) = 2

\* C5: friends_of_friends(a) never contains a nor a member of
\* direct_friends(a).
C5_FofExcludesSelfAndFriends ==
    FofRequest
        => /\ request.user_str_id \notin IdsIn(response.body)
           /\ IdsIn(response.body) \cap direct_friends(request.user_str_id, FALSE) = {}
           /\ IdsIn(response.body) \cap direct_friends(request.user_str_id, TRUE) = {}

\* A triangle with a tail: two friends of a are friends of each other, and
\* one of them has a friend a does not have.
C5_Witness ==
    /\ FofRequest
    /\ \E f, g \in direct_friends(request.user_str_id, FALSE) :
           /\ f # g
           /\ g \in direct_friends(f, FALSE)
    /\ Len(response.body) = 1

\* A connect or disconnect request naming two existing users.
PairRequest(req) ==
    /\ req.op \in {"create_connection", "remove_connection"}
    /\ DOMAIN req.data = {"user1_str_id", "user2_str_id"}
    /\ Exists(req.data["user1_str_id"])
    /\ Exists(req.data["user2_str_id"])

Id1(req) == IdOf(req.data["user1_str_id"])

Id2(req) == IdOf(req.data["user2_str_id"])

Min(x, y) == IF x <= y THEN x ELSE y

Max(x, y) == IF x <= y THEN y ELSE x

\* The canonical (min, max) pair of two internal ids, as a row.
CanonicalPair(x, y) == ConnectionRow(Min(x, y), Max(x, y))

conflict == jsonify([error |-> "Connection already exists"], 409)

\* C6: while the edge of a and b is stored, connect(a, b) and connect(b, a)
\* both yield Conflict.
C6_ConnectTwiceConflicts ==
    [][(/\ request'.op = "create_connection"
        /\ PairRequest(request')
        /\ Id1(request') # Id2(request')
        /\ Edge(Id1(request'), Id2(request')))
          => response' = conflict]_vars

\* The second connect names the pair with the larger internal id first.
C6_Witness ==
    /\ request.op = "create_connection"
    /\ PairRequest(request)
    /\ Id1(request) > Id2(request)
    /\ BagIn(CanonicalPair(Id1(request), Id2(request)), connections)
    /\ response = conflict

\* C7: connect(a, a) yields InvalidArgument and stores no edge, whether or
\* not a is a user and whatever is stored.
C7_SelfConnectInvalid ==
    [][(/\ request'.op = "create_connection"
        /\ DOMAIN request'.data = {"user1_str_id", "user2_str_id"}
        /\ request'.data["user1_str_id"] = request'.data["user2_str_id"])
          => /\ response' = jsonify([error |-> "Cannot connect user to themselves"], 400)
             /\ connections' = connections]_vars

\* An existing user with friends asks to be connected to itself.
C7_Witness ==
    /\ request.op = "create_connection"
    /\ PairRequest(request)
    /\ Id1(request) = Id2(request)
    /\ \E y \in UserIds : Edge(Id1(request), y)
    /\ response.status = 400

\* C8: right after a successful connect(a, b) each is in the other's
\* direct_friends; and always b is in direct_friends(a) iff a is in
\* direct_friends(b) iff the canonical pair of a and b is stored.
C8_FriendsSymmetric ==
    /\ (request.op = "create_connection" /\ response.status = 201)
         => \A reverse \in BOOLEAN :
                /\ request.data["user2_str_id"]
                       \in direct_friends(request.data["user1_str_id"], reverse)
                /\ request.data["user1_str_id"]
                       \in direct_friends(request.data["user2_str_id"], reverse)
    /\ \A a, b \in users : \A reverse \in BOOLEAN :
           /\ (b.user_str_id \in direct_friends(a.user_str_id, reverse))
                <=> (a.user_str_id \in direct_friends(b.user_str_id, reverse))
           /\ (b.user_str_id \in direct_friends(a.user_str_id, reverse))
                <=> BagIn(CanonicalPair(a.internal_db_id, b.internal_db_id), connections)

\* A connect that names the user with the larger internal id first succeeds.
C8_Witness ==
    /\ request.op = "create_connection"
    /\ response.status = 201
    /\ Id1(request) > Id2(request)
    /\ request.data["user1_str_id"] \in direct_friends(request.data["user2_str_id"], FALSE)

not_found == jsonify([error |-> "Connection not found"], 404)

\* C9: disconnect(a, b) of distinct users, in either order, removes the
\* stored edge of a and b and no other, after which neither is in the
\* other's direct_friends; with no such edge stored it yields NotFound.
C9_DisconnectRemovesEdge ==
    /\ [][(/\ request'.op = "remove_connection"
           /\ PairRequest(request')
           /\ Id1(request') # Id2(request'))
             => LET row == CanonicalPair(Id1(request'), Id2(request'))
                IN  IF Edge(Id1(request'), Id2(request'))
                    THEN /\ response' = jsonify([status |-> "connection_removed"], 200)
                         /\ ~BagIn(row, connections')
                         /\ \A r \in BagToSet(connections) \ {row} :
                                CopiesIn(r, connections') = CopiesIn(r, connections)
                         /\ BagToSet(connections') \subseteq BagToSet(connections)
                    ELSE /\ response' = not_found
                         /\ connections' = connections]_vars
    /\ []((request.op = "remove_connection" /\ response.status = 200)
            => \A reverse \in BOOLEAN :
                   /\ request.data["user2_str_id"]
                          \notin direct_friends(request.data["user1_str_id"], reverse)
                   /\ request.data["user1_str_id"]
                          \notin direct_friends(request.data["user2_str_id"], reverse))

\* A disconnect naming the larger internal id first succeeds and leaves
\* another edge of the same user stored.
C9_Witness ==
    /\ request.op = "remove_connection"
    /\ response.status = 200
    /\ Id1(request) > Id2(request)
    /\ \E y \in UserIds : Edge(Id2(request), y)

\* C10: a connect that ends in Conflict, InvalidArgument or NotFound, and a
\* disconnect that ends in NotFound, leave the stored connections as they
\* were.
C10_FailureLeavesEdges ==
    [][(/\ request'.op \in {"create_connection", "remove_connection"}
        /\ response'.status \in {400, 404, 409})
          => connections' = connections]_vars

\* A connect ends in Conflict with two edges stored.
C10_Witness ==
    /\ request.op = "create_connection"
    /\ response = conflict
    /\ BagCardinality(connections) >= 2

\* C11: every stored connection (low, high) has low < high; none is a
\* self-loop.
C11_RowsCanonical ==
    \A r \in BagToSet(connections) : r.user1_internal_id < r.user2_internal_id

\* A connect given the larger internal id first has stored (low, high).
C11_Witness ==
    /\ request.op = "create_connection"
    /\ response.status = 201
    /\ Id1(request) > Id2(request)
    /\ BagIn(ConnectionRow(Id2(request), Id1(request)), connections)
    /\ ~BagIn(ConnectionRow(Id1(request), Id2(request)), connections)

\* C12: each unordered pair of users is stored at most once: no row twice,
\* and never a row (a, b) together with a row (b, a).
C12_PairsStoredOnce ==
    \A r \in BagToSet(connections) :
        /\ CopiesIn(r, connections) = 1
        /\ r.user1_internal_id # r.user2_internal_id
             => ~BagIn(ConnectionRow(r.user2_internal_id, r.user1_internal_id),
                       connections)

\* The pair is connected, disconnected and connected again, the last time
\* with the larger internal id first, and then asked for once more.
C12_Witness ==
    /\ request.op = "create_connection"
    /\ response = conflict
    /\ Id1(request) > Id2(request)
    /\ CopiesIn(CanonicalPair(Id1(request), Id2(request)), connections) = 1
    /\ BagCardinality(connections) = MaxConnections

\* The three query operations.
Query(req) ==
    req.op \in {"get_friends", "get_friends_of_friends", "get_degree_of_separation"}

\* What a response says, a list of users being read as the set it lists.
Result(req, resp) ==
    [status |-> resp.status,
     body |-> IF req.op \in {"get_friends", "get_friends_of_friends"} /\ resp.status = 200
              THEN Range(resp.body)
              ELSE resp.body]

\* friends_of_friends(a), as get_friends_of_friends builds it.
friends_of_friends(user_str_id, reverse) ==
    {e[1] : e \in friends_of_friends_set(get_user_by_str_id(user_str_id)[1], reverse)}

\* degree_of_separation(a, x), as get_degree_of_separation answers it.
degree_of_separation(a, x, reverse) ==
    get_degree_of_separation_response(
        [from_user_str_id |-> a, to_user_str_id |-> x], reverse)

\* C16: a direct_friends, friends_of_friends or degree_of_separation query
\* leaves the users and the connections as they were, whatever it answers,
\* and the same query asked again with no write in between gets the same
\* result; in every state the result of a query does not depend on the order
\* in which the tables are scanned.
C16_QueriesArePure ==
    /\ [][Query(request')
            => /\ UNCHANGED <<users, connections>>
               /\ request' = request
                    => Result(request', response') = Result(request, response)]_vars
    /\ [](\A a, x \in StrIds :
            /\ Result([op |-> "get_friends"], get_friends_response(a, TRUE))
                 = Result([op |-> "get_friends"], get_friends_response(a, FALSE))
            /\ Exists(a) => friends_of_friends(a, TRUE) = friends_of_friends(a, FALSE)
            /\ degree_of_separation(a, x, TRUE) = degree_of_separation(a, x, FALSE))

\* A direct_friends query answered with two friends or more, which the same
\* query asked again may list in the other order.
C16_Witness ==
    /\ request.op = "get_friends"
    /\ response.status = 200
    /\ Len(response.body) >= 2
    /\ \E reverse \in BOOLEAN :
           /\ response = get_friends_response(request.user_str_id, reverse)
           /\ response # get_friends_response(request.user_str_id, ~reverse)
    /\ connections # EmptyBag

C20_DegreeSymmetric ==
    \A a, b \in StrIds :
        \A reverse \in BOOLEAN :
            LET there == degree_of_separation(a, b, reverse)
                back == degree_of_separation(b, a, reverse)
            IN  /\ there.status = back.status
                /\ (Exists(a) /\ Exists(b)) => there = back

\* A degree query from a user with connections to a user with none,
\* answered Unreachable.
C20_Witness ==
    /\ DegreeRequest
    /\ FromId # ToId
    /\ \E y \in UserIds : Edge(FromId, y)
    /\ \A y \in UserIds : ~Edge(ToId, y)
    /\ response = jsonify(not_connected, 200)
    /\ degree_of_separation(request.args["to_user_str_id"],
                            request.args["from_user_str_id"], FALSE)
         = jsonify(not_connected, 200)

\* A create_user request that names both fields.
CreateUserRequest(req) ==
    /\ req.op = "create_user"
    /\ {"user_str_id", "display_name"} \subseteq DOMAIN req.data

\* C15: create_user with an external id that exists answers Conflict and
\* leaves the users as they were; no two users share an external id or an
\* internal id; a user once created keeps its internal id, external id and
\* display name, and no other user is ever given its internal id.
C15_UsersKeepTheirIds ==
    /\ [][/\ (CreateUserRequest(request')
               /\ \E u \in users : u.user_str_id = request'.data["user_str_id"])
             => /\ response' = jsonify([error |-> "User already exists"], 409)
                /\ users' = users
          /\ users \subseteq users'
          /\ \A u \in users, v \in users' :
                 (v.internal_db_id = u.internal_db_id
                    \/ v.user_str_id = u.user_str_id) => v = u]_vars
    /\ [](\A u, v \in users :
            (u.user_str_id = v.user_str_id \/ u.internal_db_id = v.internal_db_id)
                => u = v)

\* An external id that exists is asked for again under another display
\* name, in a directory whose internal ids do not follow the order of
\* UserNames.
C15_Witness ==
    /\ CreateUserRequest(request)
    /\ response.status = 409
    /\ \E u \in users :
           /\ u.user_str_id = request.data["user_str_id"]
           /\ u.display_name # request.data["display_name"]
           /\ u.user_str_id = UserNames[1]
           /\ u.internal_db_id = 2
    /\ Cardinality(users) = 3

\* The graph of a connections table c: some row of c joins x and y.
EdgeIn(c, x, y) ==
    \E r \in BagToSet(c) :
        \/ r.user1_internal_id = x /\ r.user2_internal_id = y
        \/ r.user1_internal_id = y /\ r.user2_internal_id = x

\* The users a walk of k edges or fewer in c leads to from x.
RECURSIVE WithinIn(_, _, _)
WithinIn(c, x, k) ==
    IF k = 0 THEN {x}
    ELSE LET near == WithinIn(c, x, k - 1)
         IN  near \cup {y \in UserIds : \E z \in near : EdgeIn(c, z, y)}

\* The number of edges of a shortest path from x to y in c, -1 when there
\* is no path.
DistanceIn(c, x, y) ==
    LET hops == {k \in 0..Cardinality(UserIds) : y \in WithinIn(c, x, k)}
    IN  IF hops = {} THEN -1
        ELSE CHOOSE d \in hops : \A k \in hops : d <= k

\* Worker w's call is in, or has left, the search of get_degree_of_separation.
Searched(w) ==
    /\ calls[w].pc \in {"while", "return"}
    /\ "queue" \in DOMAIN calls[w].locals

\* Where the search of the call l belongs to ended: at its target, or with
\* nothing left in the queue.
EndOfSearch(l, resp) ==
    LET n == Len(l.dequeued)
        target == l.user2.internal_db_id
    IN  \/ /\ n > 0
           /\ l.dequeued[n][1] = target
           /\ resp = jsonify([degree |-> l.dequeued[n][2]], 200)
           /\ \A i \in 1..(n - 1) : l.dequeued[i][1] # target
        \/ /\ l.queue = <<>>
           /\ resp = jsonify(not_connected, 200)
           /\ \A i \in 1..n : l.dequeued[i][1] # target

\* C17: the search of degree_of_separation ends on every stored graph,
\* cycles included.  A node enters the queue and the visited set at most
\* once; nodes leave the queue in the order they entered it, by
\* non-decreasing distance from the start, each tagged with its distance;
\* and the loop is left by returning the tag of to_id when it is dequeued,
\* or with the queue empty.
C17_SearchTerminates ==
    /\ [](Searched("w1") =>
            LET l == calls["w1"].locals
                start == l.user1.internal_db_id
            IN  /\ \A i, j \in DOMAIN l.enqueued :
                       l.enqueued[i][1] = l.enqueued[j][1] => i = j
                /\ l.visited = {l.enqueued[i][1] : i \in DOMAIN l.enqueued}
                /\ l.enqueued = l.dequeued \o l.queue
                /\ \A i, j \in DOMAIN l.enqueued :
                       i <= j => l.enqueued[i][2] <= l.enqueued[j][2]
                /\ \A i \in DOMAIN l.enqueued :
                       l.enqueued[i][2] = DistanceIn(l.read, start, l.enqueued[i][1])
                /\ calls["w1"].pc = "return" => EndOfSearch(l, calls["w1"].response))
    /\ (calls["w1"].pc = "while") ~> (calls["w1"].pc = "return")

\* A search over a triangle for a user outside it: every user of the
\* triangle is dequeued once, and the queue is found empty.
C17_Witness ==
    /\ Searched("w1")
    /\ calls["w1"].pc = "return"
    /\ calls["w1"].response = jsonify(not_connected, 200)
    /\ Len(calls["w1"].locals.dequeued) = 3
    /\ \A i, j \in DOMAIN calls["w1"].locals.dequeued :
           i # j => EdgeIn(connections, calls["w1"].locals.dequeued[i][1],
                           calls["w1"].locals.dequeued[j][1])

\* Worker w's call is a connect that has reached its INSERT and is about to
\* return.
Connected(w) ==
    /\ calls[w].pc = "return"
    /\ calls[w].request.op = "create_connection"
    /\ "row" \in DOMAIN calls[w].locals

\* C13: two connect calls for the same canonical pair, given in the same or
\* in the opposite order, in progress together and both begun on a table
\* without the pair: whichever INSERT runs first, one call answers 201 and
\* the other Conflict, and the table holds the pair once.
C13_OneConnectWins ==
    \A w, v \in Workers :
        (/\ w # v
         /\ Connected(w) /\ Connected(v)
         /\ calls[w].locals.row = calls[v].locals.row
         /\ ~calls[w].locals.held /\ ~calls[v].locals.held)
            => /\ \/ calls[w].response.status = 201 /\ calls[v].response = conflict
                  \/ calls[v].response.status = 201 /\ calls[w].response = conflict
               /\ CopiesIn(calls[w].locals.row, connections) = 1

\* Both calls began on a table without the pair, one given (a, b) and the
\* other (b, a), and both have reached their return.
C13_Witness ==
    /\ Connected("w1") /\ Connected("w2")
    /\ calls["w1"].locals.row = calls["w2"].locals.row
    /\ ~calls["w1"].locals.held /\ ~calls["w2"].locals.held
    /\ calls["w1"].request.data["user1_str_id"] = calls["w2"].request.data["user2_str_id"]
    /\ calls["w1"].request.data["user2_str_id"] = calls["w2"].request.data["user1_str_id"]
    /\ calls["w1"].response = conflict
    /\ calls["w2"].response.status = 201

\* What a degree query for two distinct users is to answer on table c.
DegreeIn(c, x, y) ==
    IF DistanceIn(c, x, y) = -1
    THEN jsonify(not_connected, 200)
    ELSE jsonify([degree |-> DistanceIn(c, x, y)], 200)

\* C14: a degree_of_separation query reads the connections once, after it
\* has found its two users, and what it returns is the shortest-path
\* distance (or Unreachable) in the table as that one read found it,
\* whatever connect and disconnect calls do to the table before and after.
C14_DegreeOfOneRead ==
    /\ [][(calls["w1"].pc = "select" /\ calls'["w1"].pc # "select")
             => /\ calls'["w1"].locals.read = connections
                /\ connections' = connections]_vars
    /\ [][(Searched("w1") /\ calls'["w1"].pc # "idle")
             => /\ calls'["w1"].locals.read = calls["w1"].locals.read
                /\ calls'["w1"].locals.graph = calls["w1"].locals.graph]_vars
    /\ []((Searched("w1") /\ calls["w1"].pc = "return")
             => calls["w1"].response
                  = DegreeIn(calls["w1"].locals.read,
                             calls["w1"].locals.user1.internal_db_id,
                             calls["w1"].locals.user2.internal_db_id))

\* A query about to answer 2 on a table that a connect has changed since
\* the read, and on which the answer would be 1.
C14_Witness ==
    /\ Searched("w1")
    /\ calls["w1"].pc = "return"
    /\ calls["w1"].response = jsonify([degree |-> 2], 200)
    /\ calls["w1"].locals.read # connections
    /\ DistanceIn(connections, calls["w1"].locals.user1.internal_db_id,
                  calls["w1"].locals.user2.internal_db_id) = 1

\* The friends of user x in table c.
FriendsIn(c, x) == {y \in UserIds : EdgeIn(c, x, y)}

\* What friends_of_friends(x) is to be on table c: the friends of x's
\* friends, less x and x's friends.
FofIn(c, x) ==
    (UNION {FriendsIn(c, f) : f \in FriendsIn(c, x)}) \ ({x} \cup FriendsIn(c, x))

\* Worker w's call is a friends-of-friends query about to return its list.
Listed(w) ==
    /\ calls[w].pc = "return"
    /\ calls[w].request.op = "get_friends_of_friends"
    /\ calls[w].response.status = 200

\* C18: a friends_of_friends(a) query that connect and disconnect calls
\* interleave with returns the friends-of-friends set of a in one of the
\* tables that existed while the query was in progress.
C18_FofOfOneTable ==
    Listed("w1") =>
        \E c \in calls["w1"].locals.tables :
            {IdOf(x) : x \in IdsIn(calls["w1"].response.body)}
                = FofIn(c, calls["w1"].locals.user.internal_db_id)

====
